---------------------------- MODULE Spec2Model ----------------------------
(***************************************************************************)
(* A model of the xor doubly-linked list of src/src/lib.rs.                *)
(*                                                                         *)
(* The heap is a function from addresses to cells.  A node stores one     *)
(* packed link word, prev_x_next, the bitwise xor of the addresses of its  *)
(* neighbours (0 for a missing neighbour).  Option<NonNull<Node>> is the   *)
(* empty tuple (None) or a one-element tuple holding the address (Some).   *)
(***************************************************************************)
EXTENDS Integers, Sequences, FiniteSets, TLC

\* Addresses the allocator can hand out are 1..MaxAddr (0 is the null address).
MaxAddr == 3
\* Payload values are 1..MaxVal.
MaxVal == 2
\* The lists iterated over live in a heap of the addresses 1..MaxIterAddr.
MaxIterAddr == 5
\* The lists whose iterators are also cloned and formatted live in a heap of
\* the addresses 1..MaxDebugAddr.
MaxDebugAddr == 4
\* An iterator is Debug-formatted at most MaxFmt times.
MaxFmt == 2
\* The neighbour addresses packed into one link word are 1..MaxPackAddr.
MaxPackAddr == 31
\* A thread that shares the list makes at most MaxThreadCalls calls.
MaxThreadCalls == 3
\* The lists whose interior nodes are watched live in a heap of the
\* addresses 1..MaxFrameAddr.
MaxFrameAddr == 4
\* A counting caller makes at most MaxPushes pushes.
MaxPushes == 5
\* Width of the machine word (usize) of the model.
UsizeBits == 8

Addr == 1..MaxAddr
Val == 1..MaxVal
IterAddr == 1..MaxIterAddr
DebugAddr == 1..MaxDebugAddr
UsizeModulus == 2 ^ UsizeBits
\* The two list variables of a program, `m` and `n` in tests.rs.
Lists == {"m", "n"}

VARIABLES
    heap,       \* [Addr -> cell]: the allocator's memory
    lists,      \* [Lists -> LinkedList]: head, tail, len of each list
    lastOp,     \* the call that produced the current state, with its result
    ub,         \* TRUE once a call dereferenced an address that holds no node
    panicked,   \* TRUE once a call panicked (arithmetic overflow)
    donor,      \* the donor list of the latest append, "none" before any
    phase,      \* the step of a scripted caller (tests.rs), "free" without one
    pushed,     \* the values a scripted caller pushed, in order
    popped,     \* the results a scripted caller's pops returned, in order
    pushes,     \* the number of pushes a counting caller made
    pops,       \* the number of its pops that returned a value
    iters,      \* the live iterator over the list `m`, under its name `it`
    seen,       \* per live iterator: what its reads yielded, front and back
    fmts,       \* the number of Debug-format calls made on iterators
    abs,        \* [Lists -> Seq(Val)]: the abstract sequence of each list
    teardown,   \* the position of drop(list) and what it has reclaimed
    threads     \* per thread sharing the list: its position in its calls

listVars == <<heap, lists, lastOp, ub, panicked, donor>>
scriptVars == <<phase, pushed, popped>>
countVars == <<pushes, pops>>
iterVars == <<iters, seen, fmts>>
extVars == <<abs, teardown, threads>>
vars == <<heap, lists, lastOp, ub, panicked, donor, phase, pushed, popped,
          pushes, pops, iters, seen, fmts, abs, teardown, threads>>

-----------------------------------------------------------------------------
(* Option<NonNull<Node<E>>> and the address conversions of Node::xor *)

None == <<>>
Some(a) == <<a>>

\* other.map(|nn| nn.as_ptr() as usize).unwrap_or(0)
as_usize(o) == IF o = None THEN 0 ELSE o[1]

\* NonNull::new(result as *mut _): the null address is None
NonNull_new(u) == IF u = 0 THEN None ELSE Some(u)

\* usize ^ usize
RECURSIVE BitXor(_, _)
BitXor(a, b) ==
    IF a = 0 THEN b
    ELSE IF b = 0 THEN a
    ELSE ((a + b) % 2) + 2 * BitXor(a \div 2, b \div 2)

-----------------------------------------------------------------------------
(* Node *)

\* A cell of the heap that holds no node.
FreeCell == [alloc |-> FALSE, prev_x_next |-> 0, element |-> 0]

\* Node::new, boxed: a live cell with an empty link word
Node_new(element) == [alloc |-> TRUE, prev_x_next |-> 0, element |-> element]

\* Node::xor that adds the words
xor_by_sum(node, other) ==
    NonNull_new((as_usize(other) + node.prev_x_next) % UsizeModulus)

\* Node::xor
xor(node, other) == NonNull_new(BitXor(as_usize(other), node.prev_x_next))

\* Node::xor_assign
xor_assign(node, other) ==
    [node EXCEPT !.prev_x_next = BitXor(@, as_usize(other))]

\* Node::into_element
into_element(node) == node.element

\* An address that holds a node.
Live(h, a) == a \in DOMAIN h /\ h[a].alloc

\* *ptr.as_ptr() for reading; an address that holds no node reads as FreeCell
\* and the caller records the undefined behaviour.
Deref(h, a) == IF a \in DOMAIN h THEN h[a] ELSE FreeCell

\* (*ptr.as_ptr()).xor_assign(other)
Store_xor_assign(h, a, other) ==
    IF a \in DOMAIN h THEN [h EXCEPT ![a] = xor_assign(@, other)] ELSE h

\* Box::from_raw(ptr) dropped: the cell is returned to the allocator
Free(h, a) == IF a \in DOMAIN h THEN [h EXCEPT ![a] = FreeCell] ELSE h

-----------------------------------------------------------------------------
(* LinkedList: the private node operations *)

\* LinkedList::new
LinkedList_new == [head |-> None, tail |-> None, len |-> 0]

\* self.len += 1 / self.len -= 1 on a usize: wraps, and panics where the
\* build checks overflow
AddUsize(a, b) == (a + b) % UsizeModulus
SubUsize(a, b) == (a - b) % UsizeModulus
AddOverflows(a, b) == a + b >= UsizeModulus
SubOverflows(a, b) == a < b

\* push_front_node that does not xor the new node into the old head's link
push_front_node_no_relink(self, h, node) ==
    LET h1 == Store_xor_assign(h, node, self.head)
        n == Some(node)
    IN  [self |-> [head |-> n,
                   tail |-> IF self.head = None THEN n ELSE self.tail,
                   len |-> AddUsize(self.len, 1)],
         heap |-> h1,
         ub |-> ~Live(h, node),
         panic |-> AddOverflows(self.len, 1)]

\* push_front_node: `node` is the address of the boxed node
push_front_node(self, h, node) ==
    LET h1 == Store_xor_assign(h, node, self.head)
        n == Some(node)
        h2 == IF self.head = None THEN h1
              ELSE Store_xor_assign(h1, self.head[1], n)
    IN  [self |-> [head |-> n,
                   tail |-> IF self.head = None THEN n ELSE self.tail,
                   len |-> AddUsize(self.len, 1)],
         heap |-> h2,
         ub |-> ~Live(h, node) \/ (self.head # None /\ ~Live(h, self.head[1])),
         panic |-> AddOverflows(self.len, 1)]

\* pop_front_node with `self.len -= 1` moved out of the closure: it runs on an
\* empty list too
pop_front_node_always_decrements(self, h) ==
    IF self.head = None
    THEN [self |-> [self EXCEPT !.len = SubUsize(self.len, 1)], heap |-> h,
          node |-> None, ub |-> FALSE, panic |-> SubOverflows(self.len, 1)]
    ELSE LET node_ptr == self.head[1]
             head == xor(Deref(h, node_ptr), None)
             h1 == IF head = None THEN h
                   ELSE Store_xor_assign(h, head[1], Some(node_ptr))
         IN  [self |-> [head |-> head,
                        tail |-> IF head = None THEN None ELSE self.tail,
                        len |-> SubUsize(self.len, 1)],
              heap |-> h1,
              node |-> Some(node_ptr),
              ub |-> ~Live(h, node_ptr) \/ (head # None /\ ~Live(h, head[1])),
              panic |-> SubOverflows(self.len, 1)]

\* pop_front_node without `Some(head) => (*head.as_ptr()).xor_assign(..)`
pop_front_node_no_unlink(self, h) ==
    IF self.head = None
    THEN [self |-> self, heap |-> h, node |-> None, ub |-> FALSE, panic |-> FALSE]
    ELSE LET node_ptr == self.head[1]
             head == xor(Deref(h, node_ptr), None)
         IN  [self |-> [head |-> head,
                        tail |-> IF head = None THEN None ELSE self.tail,
                        len |-> SubUsize(self.len, 1)],
              heap |-> h,
              node |-> Some(node_ptr),
              ub |-> ~Live(h, node_ptr),
              panic |-> SubOverflows(self.len, 1)]

\* pop_front_node without `None => self.tail = None`
pop_front_node_keeps_tail(self, h) ==
    IF self.head = None
    THEN [self |-> self, heap |-> h, node |-> None, ub |-> FALSE, panic |-> FALSE]
    ELSE LET node_ptr == self.head[1]
             head == xor(Deref(h, node_ptr), None)
             h1 == IF head = None THEN h
                   ELSE Store_xor_assign(h, head[1], Some(node_ptr))
         IN  [self |-> [head |-> head,
                        tail |-> self.tail,
                        len |-> SubUsize(self.len, 1)],
              heap |-> h1,
              node |-> Some(node_ptr),
              ub |-> ~Live(h, node_ptr) \/ (head # None /\ ~Live(h, head[1])),
              panic |-> SubOverflows(self.len, 1)]

\* pop_front_node: the result `node` is the Option<Box<Node>> returned; the
\* box still owns its cell
pop_front_node(self, h) ==
    IF self.head = None
    THEN [self |-> self, heap |-> h, node |-> None, ub |-> FALSE, panic |-> FALSE]
    ELSE LET node_ptr == self.head[1]
             head == xor(Deref(h, node_ptr), None)
             h1 == IF head = None THEN h
                   ELSE Store_xor_assign(h, head[1], Some(node_ptr))
         IN  [self |-> [head |-> head,
                        tail |-> IF head = None THEN None ELSE self.tail,
                        len |-> SubUsize(self.len, 1)],
              heap |-> h1,
              node |-> Some(node_ptr),
              ub |-> ~Live(h, node_ptr) \/ (head # None /\ ~Live(h, head[1])),
              panic |-> SubOverflows(self.len, 1)]

\* push_back_node that also xors the new node into the head's link word
push_back_node_marks_head(self, h, node) ==
    LET h1 == Store_xor_assign(h, node, self.tail)
        n == Some(node)
        h2 == IF self.tail = None THEN h1
              ELSE Store_xor_assign(h1, self.tail[1], n)
        h3 == IF self.head = None \/ self.head = self.tail THEN h2
              ELSE Store_xor_assign(h2, self.head[1], n)
    IN  [self |-> [head |-> IF self.tail = None THEN n ELSE self.head,
                   tail |-> n,
                   len |-> AddUsize(self.len, 1)],
         heap |-> h3,
         ub |-> ~Live(h, node) \/ (self.tail # None /\ ~Live(h, self.tail[1])),
         panic |-> AddOverflows(self.len, 1)]

\* push_back_node
push_back_node(self, h, node) ==
    LET h1 == Store_xor_assign(h, node, self.tail)
        n == Some(node)
        h2 == IF self.tail = None THEN h1
              ELSE Store_xor_assign(h1, self.tail[1], n)
    IN  [self |-> [head |-> IF self.tail = None THEN n ELSE self.head,
                   tail |-> n,
                   len |-> AddUsize(self.len, 1)],
         heap |-> h2,
         ub |-> ~Live(h, node) \/ (self.tail # None /\ ~Live(h, self.tail[1])),
         panic |-> AddOverflows(self.len, 1)]

\* pop_back_node without `self.len -= 1`
pop_back_node_keeps_len(self, h) ==
    IF self.tail = None
    THEN [self |-> self, heap |-> h, node |-> None, ub |-> FALSE, panic |-> FALSE]
    ELSE LET node_ptr == self.tail[1]
             tail == xor(Deref(h, node_ptr), None)
             h1 == IF tail = None THEN h
                   ELSE Store_xor_assign(h, tail[1], Some(node_ptr))
         IN  [self |-> [head |-> IF tail = None THEN None ELSE self.head,
                        tail |-> tail,
                        len |-> self.len],
              heap |-> h1,
              node |-> Some(node_ptr),
              ub |-> ~Live(h, node_ptr) \/ (tail # None /\ ~Live(h, tail[1])),
              panic |-> FALSE]

\* pop_back_node
pop_back_node(self, h) ==
    IF self.tail = None
    THEN [self |-> self, heap |-> h, node |-> None, ub |-> FALSE, panic |-> FALSE]
    ELSE LET node_ptr == self.tail[1]
             tail == xor(Deref(h, node_ptr), None)
             h1 == IF tail = None THEN h
                   ELSE Store_xor_assign(h, tail[1], Some(node_ptr))
         IN  [self |-> [head |-> IF tail = None THEN None ELSE self.head,
                        tail |-> tail,
                        len |-> SubUsize(self.len, 1)],
              heap |-> h1,
              node |-> Some(node_ptr),
              ub |-> ~Live(h, node_ptr) \/ (tail # None /\ ~Live(h, tail[1])),
              panic |-> SubOverflows(self.len, 1)]

-----------------------------------------------------------------------------
(* LinkedList: the public operations *)

\* self.len
len(self) == self.len

\* Box::new(Node::new(elem)) at the free address `a`
Box_new(h, a, elem) == [h EXCEPT ![a] = Node_new(elem)]

\* push_front that links the new node at the back
push_front_at_back(self, h, a, elem) ==
    push_back_node(self, Box_new(h, a, elem), a)

\* push_front
push_front(self, h, a, elem) == push_front_node(self, Box_new(h, a, elem), a)

\* push_back
push_back(self, h, a, elem) == push_back_node(self, Box_new(h, a, elem), a)

\* map(Node::into_element) that forgets the box instead of freeing it
MapIntoElement_leaks(r) ==
    IF r.node = None
    THEN [self |-> r.self, heap |-> r.heap, ret |-> None,
          ub |-> r.ub, panic |-> r.panic]
    ELSE [self |-> r.self, heap |-> r.heap,
          ret |-> Some(into_element(Deref(r.heap, r.node[1]))),
          ub |-> r.ub, panic |-> r.panic]

\* Option<Box<Node>>::map(Node::into_element): moves the element out and
\* frees the box
MapIntoElement(r) ==
    IF r.node = None
    THEN [self |-> r.self, heap |-> r.heap, ret |-> None,
          ub |-> r.ub, panic |-> r.panic]
    ELSE [self |-> r.self, heap |-> Free(r.heap, r.node[1]),
          ret |-> Some(into_element(Deref(r.heap, r.node[1]))),
          ub |-> r.ub, panic |-> r.panic]

\* pop_front
pop_front(self, h) == MapIntoElement(pop_front_node(self, h))

\* pop_back that calls pop_front_node
pop_back_takes_front(self, h) == MapIntoElement(pop_front_node(self, h))

\* pop_back
pop_back(self, h) == MapIntoElement(pop_back_node(self, h))

\* append that adopts other.tail by copy and leaves the donor's tail set
append_keeps_donor_tail(self, other, h) ==
    IF self.tail = None
    THEN [self |-> other, other |-> self, heap |-> h,
          ub |-> FALSE, panic |-> FALSE]
    ELSE IF other.head = None
    THEN [self |-> self, other |-> other, heap |-> h,
          ub |-> FALSE, panic |-> FALSE]
    ELSE LET tail == self.tail[1]
             other_head == other.head[1]
             h1 == Store_xor_assign(h, tail, Some(other_head))
             h2 == Store_xor_assign(h1, other_head, Some(tail))
         IN  [self |-> [head |-> self.head,
                        tail |-> other.tail,
                        len |-> AddUsize(self.len, other.len)],
              other |-> [head |-> None, tail |-> other.tail, len |-> 0],
              heap |-> h2,
              ub |-> ~Live(h, tail) \/ ~Live(h, other_head),
              panic |-> AddOverflows(self.len, other.len)]

\* append that adds the donor's len but keeps the receiver's old tail
append_keeps_tail(self, other, h) ==
    IF self.tail = None
    THEN [self |-> other, other |-> self, heap |-> h,
          ub |-> FALSE, panic |-> FALSE]
    ELSE IF other.head = None
    THEN [self |-> self, other |-> other, heap |-> h,
          ub |-> FALSE, panic |-> FALSE]
    ELSE LET tail == self.tail[1]
             other_head == other.head[1]
             h1 == Store_xor_assign(h, tail, Some(other_head))
             h2 == Store_xor_assign(h1, other_head, Some(tail))
         IN  [self |-> [head |-> self.head,
                        tail |-> self.tail,
                        len |-> AddUsize(self.len, other.len)],
              other |-> [head |-> None, tail |-> None, len |-> 0],
              heap |-> h2,
              ub |-> ~Live(h, tail) \/ ~Live(h, other_head),
              panic |-> AddOverflows(self.len, other.len)]

\* append that splices the receiver's tail but leaves the donor's former
\* head without its new previous neighbour
append_one_sided(self, other, h) ==
    IF self.tail = None
    THEN [self |-> other, other |-> self, heap |-> h,
          ub |-> FALSE, panic |-> FALSE]
    ELSE IF other.head = None
    THEN [self |-> self, other |-> other, heap |-> h,
          ub |-> FALSE, panic |-> FALSE]
    ELSE LET tail == self.tail[1]
             other_head == other.head[1]
             h1 == Store_xor_assign(h, tail, Some(other_head))
         IN  [self |-> [head |-> self.head,
                        tail |-> other.tail,
                        len |-> AddUsize(self.len, other.len)],
              other |-> [head |-> None, tail |-> None, len |-> 0],
              heap |-> h1,
              ub |-> ~Live(h, tail) \/ ~Live(h, other_head),
              panic |-> AddOverflows(self.len, other.len)]

\* append
append(self, other, h) ==
    IF self.tail = None
    THEN \* mem::swap(self, other)
         [self |-> other, other |-> self, heap |-> h,
          ub |-> FALSE, panic |-> FALSE]
    ELSE IF other.head = None
    THEN [self |-> self, other |-> other, heap |-> h,
          ub |-> FALSE, panic |-> FALSE]
    ELSE LET tail == self.tail[1]
             other_head == other.head[1]
             h1 == Store_xor_assign(h, tail, Some(other_head))
             h2 == Store_xor_assign(h1, other_head, Some(tail))
         IN  [self |-> [head |-> self.head,
                        tail |-> other.tail,
                        len |-> AddUsize(self.len, other.len)],
              other |-> [head |-> None, tail |-> None, len |-> 0],
              heap |-> h2,
              ub |-> ~Live(h, tail) \/ ~Live(h, other_head),
              panic |-> AddOverflows(self.len, other.len)]

-----------------------------------------------------------------------------
(* Iter: the double-ended iterator *)

\* LinkedList::iter
iter(self) ==
    [head |-> self.head, prev_head |-> None,
     tail |-> self.tail, prev_tail |-> None, len |-> self.len]

\* The closure of Iter::next on the node read at self.head; `at` is that
\* node's address. The result carries the iterator afterwards, the element
\* the returned reference points to, and the address dereferenced.
next_read(it, at, node) ==
    [it |-> [it EXCEPT !.len = SubUsize(it.len, 1),
                       !.head = xor(node, it.prev_head),
                       !.prev_head = Some(at)],
     ret |-> Some(node.element),
     node |-> Some(at)]

\* Iter::next without the test of self.len
Iter_next_no_len_test(it, h) ==
    IF it.head = None
    THEN [it |-> it, ret |-> None, node |-> None]
    ELSE next_read(it, it.head[1], Deref(h, it.head[1]))

\* Iter::next
Iter_next(it, h) ==
    IF it.len = 0 \/ it.head = None
    THEN [it |-> it, ret |-> None, node |-> None]
    ELSE next_read(it, it.head[1], Deref(h, it.head[1]))

\* The closure of Iter::next_back decoding the link with prev_head
next_back_read_from_prev_head(it, at, node) ==
    [it |-> [it EXCEPT !.len = SubUsize(it.len, 1),
                       !.tail = xor(node, it.prev_head),
                       !.prev_tail = Some(at)],
     ret |-> Some(node.element),
     node |-> Some(at)]

\* The closure of Iter::next_back on the node read at self.tail
next_back_read(it, at, node) ==
    [it |-> [it EXCEPT !.len = SubUsize(it.len, 1),
                       !.tail = xor(node, it.prev_tail),
                       !.prev_tail = Some(at)],
     ret |-> Some(node.element),
     node |-> Some(at)]

\* Iter::next_back
Iter_next_back(it, h) ==
    IF it.len = 0 \/ it.tail = None
    THEN [it |-> it, ret |-> None, node |-> None]
    ELSE next_back_read(it, it.tail[1], Deref(h, it.tail[1]))

\* Iter::last: one backward read of the iterator it consumes
Iter_last(it, h) == Iter_next_back(it, h)

\* Iter::size_hint
Iter_size_hint(it) == <<it.len, Some(it.len)>>

\* Iter::clone
Iter_clone(it) == it

\* The elements an iterator yields by forward reads until the first None,
\* and whether every address read held a node: Debug for LinkedList,
\* f.debug_list().entries(self).
RECURSIVE Entries(_, _)
Entries(it, h) ==
    LET r == Iter_next(it, h)
    IN  IF r.ret = None THEN [vals |-> <<>>, ok |-> TRUE]
        ELSE LET rest == Entries(r.it, h)
             IN  [vals |-> <<r.ret[1]>> \o rest.vals,
                  ok |-> Live(h, r.node[1]) /\ rest.ok]

\* Debug for LinkedList
LinkedList_fmt(self, h) == Entries(iter(self), h)

\* Debug for Iter: xors prev_head into the node at head and prev_tail into the
\* node at tail, then formats a LinkedList of head, tail and len and the len.
Iter_fmt(it, h) ==
    LET h1 == IF it.head = None THEN h
              ELSE Store_xor_assign(h, it.head[1], it.prev_head)
        h2 == IF it.tail = None THEN h1
              ELSE Store_xor_assign(h1, it.tail[1], it.prev_tail)
        list == [head |-> it.head, tail |-> it.tail, len |-> it.len]
        out == LinkedList_fmt(list, h2)
    IN  [heap |-> h2,
         out |-> <<out.vals, it.len>>,
         ub |-> \/ (it.head # None /\ ~Live(h, it.head[1]))
                \/ (it.tail # None /\ ~Live(h, it.tail[1]))
                \/ ~out.ok]

-----------------------------------------------------------------------------
(* The walks of tests.rs check_links *)

\* One more step than there are addresses: a walk that visits more nodes
\* than the heap holds never ends.
WalkFuel == MaxAddr + 1

\* The loop of check_links from node_ptr, having come from last_ptr: the
\* addresses visited, and whether the walk ended at a null next address
\* having read live nodes only.
RECURSIVE Walk(_, _, _, _)
Walk(h, last_ptr, node_ptr, fuel) ==
    IF fuel = 0 \/ ~Live(h, node_ptr)
    THEN [nodes |-> <<>>, ok |-> FALSE]
    ELSE LET next == xor(h[node_ptr], last_ptr)
         IN  IF next = None
             THEN [nodes |-> <<node_ptr>>, ok |-> TRUE]
             ELSE LET r == Walk(h, Some(node_ptr), next[1], fuel - 1)
                  IN  [nodes |-> <<node_ptr>> \o r.nodes, ok |-> r.ok]

\* The forward walk of a list, from head.
ForwardWalk(h, list) ==
    IF list.head = None THEN [nodes |-> <<>>, ok |-> TRUE]
    ELSE Walk(h, None, list.head[1], WalkFuel)

\* The reverse walk of a list, from tail.
ReverseWalk(h, list) ==
    IF list.tail = None THEN [nodes |-> <<>>, ok |-> TRUE]
    ELSE Walk(h, None, list.tail[1], WalkFuel)

\* check_links: the assertions of tests.rs
check_links(h, list) ==
    IF list.head = None
    THEN list.tail = None /\ list.len = 0
    ELSE LET w == ForwardWalk(h, list)
         IN  /\ w.ok
             /\ list.tail # None
             /\ list.tail[1] = w.nodes[Len(w.nodes)]
             /\ Len(w.nodes) = list.len

\* The values repeated pop_front calls return until the first None, as the
\* loop `for elt in sum { m.pop_front() }` of tests.rs reads them.
RECURSIVE Drain(_, _, _)
Drain(h, self, fuel) ==
    IF fuel = 0 THEN <<>>
    ELSE LET r == pop_front(self, h)
         IN  IF r.ret = None THEN <<>>
             ELSE <<r.ret[1]>> \o Drain(r.heap, r.self, fuel - 1)

Reverse(s) == [i \in 1..Len(s) |-> s[Len(s) + 1 - i]]

\* The elements of a list front to back, as the forward walk reads them.
Elements(h, list) ==
    LET w == ForwardWalk(h, list)
    IN  [i \in 1..Len(w.nodes) |-> h[w.nodes[i]].element]

-----------------------------------------------------------------------------
(* The program: two lists and the calls a caller can make on them *)

\* The addresses Box::new can return: any cell that holds no node.
FreeAddrs == {a \in DOMAIN heap : ~heap[a].alloc}

\* A call record: the operation, the list it is called on, the other list of
\* an append, the element pushed, the value returned, and the receiver's
\* len when the call was made.
Call(op, l, o, elem, ret) ==
    [op |-> op, list |-> l, other |-> o, elem |-> elem, ret |-> ret,
     pre |-> lists[l].len]

Running == ~ub /\ ~panicked

ListInit ==
    /\ heap = [a \in Addr |-> FreeCell]
    /\ lists = [l \in Lists |-> LinkedList_new]
    /\ lastOp = [op |-> "new", list |-> "m", other |-> "n", elem |-> 0,
                 ret |-> None, pre |-> 0]
    /\ ub = FALSE
    /\ panicked = FALSE
    /\ donor = "none"

ScriptIdle == phase = "free" /\ pushed = <<>> /\ popped = <<>>
CountIdle == pushes = 0 /\ pops = 0
NoIters == [i \in {} |-> 0]
IterIdle == iters = NoIters /\ seen = NoIters /\ fmts = 0
NoTeardown == [pc |-> "none", node |-> None, reclaimed |-> <<>>, panics |-> 0]
ExtIdle ==
    /\ abs = [l \in Lists |-> <<>>]
    /\ teardown = NoTeardown
    /\ threads = NoIters

PushFront(l, elem, a) ==
    /\ Running
    /\ a \in FreeAddrs
    /\ LET r == push_front(lists[l], heap, a, elem)
       IN  /\ heap' = r.heap
           /\ lists' = [lists EXCEPT ![l] = r.self]
           /\ ub' = r.ub
           /\ panicked' = r.panic
    /\ lastOp' = Call("push_front", l, l, elem, None)
    /\ donor' = donor

PushBack(l, elem, a) ==
    /\ Running
    /\ a \in FreeAddrs
    /\ LET r == push_back(lists[l], heap, a, elem)
       IN  /\ heap' = r.heap
           /\ lists' = [lists EXCEPT ![l] = r.self]
           /\ ub' = r.ub
           /\ panicked' = r.panic
    /\ lastOp' = Call("push_back", l, l, elem, None)
    /\ donor' = donor

PopFront(l) ==
    /\ Running
    /\ LET r == pop_front(lists[l], heap)
       IN  /\ heap' = r.heap
           /\ lists' = [lists EXCEPT ![l] = r.self]
           /\ ub' = r.ub
           /\ panicked' = r.panic
           /\ lastOp' = Call("pop_front", l, l, 0, r.ret)
    /\ donor' = donor

PopBack(l) ==
    /\ Running
    /\ LET r == pop_back(lists[l], heap)
       IN  /\ heap' = r.heap
           /\ lists' = [lists EXCEPT ![l] = r.self]
           /\ ub' = r.ub
           /\ panicked' = r.panic
           /\ lastOp' = Call("pop_back", l, l, 0, r.ret)
    /\ donor' = donor

AppendLists(l, o) ==
    /\ Running
    /\ l # o
    /\ LET r == append(lists[l], lists[o], heap)
       IN  /\ heap' = r.heap
           /\ lists' = [lists EXCEPT ![l] = r.self, ![o] = r.other]
           /\ ub' = r.ub
           /\ panicked' = r.panic
    /\ lastOp' = Call("append", l, o, 0, None)
    /\ donor' = o

-----------------------------------------------------------------------------
(* Spec: any sequence of the five mutating operations on the two lists *)

Init == ListInit /\ ScriptIdle /\ CountIdle /\ IterIdle /\ ExtIdle

Idle == UNCHANGED <<scriptVars, countVars, extVars, iterVars>>

Next ==
    \/ \E l \in Lists, elem \in Val, a \in Addr : PushFront(l, elem, a) /\ Idle
    \/ \E l \in Lists, elem \in Val, a \in Addr : PushBack(l, elem, a) /\ Idle
    \/ \E l \in Lists : PopFront(l) /\ Idle
    \/ \E l \in Lists : PopBack(l) /\ Idle
    \/ \E l, o \in Lists : AppendLists(l, o) /\ Idle

Spec == Init /\ [][Next]_vars

\* No call of Spec dereferences an address that holds no node, and none panics.
MemorySafe == ~ub /\ ~panicked

\* The nodes of the last call's list, front to back.
NodesOf(l) == ForwardWalk(heap, lists[l]).nodes

-----------------------------------------------------------------------------
\* C1: after every mutating operation, the forward walk of each list from
\* head (coming from 0, stepping to link XOR coming_from until the next
\* address is 0) visits exactly len nodes and ends at tail.
C1_ForwardLinkInvariant ==
    \A l \in Lists :
        /\ check_links(heap, lists[l])
        /\ LET w == ForwardWalk(heap, lists[l])
           IN  /\ w.ok
               /\ Len(w.nodes) = lists[l].len
               /\ lists[l].len > 0 => lists[l].tail = Some(w.nodes[Len(w.nodes)])

\* A list of three nodes that an append of two non-empty lists produced.
C1_Witness ==
    /\ lastOp.op = "append"
    /\ lists[lastOp.list].len >= 3
    /\ lists[lastOp.other].len = 0
    /\ Len(NodesOf(lastOp.list)) >= 3

\* C2: after every mutating operation, the reverse walk of each list from
\* tail visits the nodes of the forward walk in reversed order and ends at
\* head.
C2_ReverseWalk ==
    \A l \in Lists :
        LET f == ForwardWalk(heap, lists[l])
            r == ReverseWalk(heap, lists[l])
        IN  /\ r.ok
            /\ r.nodes = Reverse(f.nodes)
            /\ Len(r.nodes) = lists[l].len
            /\ lists[l].len > 0 => lists[l].head = Some(r.nodes[Len(r.nodes)])

\* The reverse walk of a three-node list after a pop_back left it so.
C2_Witness ==
    /\ lastOp.op \in {"push_back", "pop_back", "append"}
    /\ Len(ReverseWalk(heap, lists[lastOp.list]).nodes) >= 3

Pops == {"pop_front", "pop_back"}
Pushes == {"push_front", "push_back"}
OtherList(l) == CHOOSE o \in Lists : o # l

\* C5: pop_front and pop_back on an empty list return None without
\* panicking and leave head, tail and len as they were (None, None, 0),
\* whether the list is new, was emptied by pops or was the donor of an append.
C5_PopOnEmpty ==
    [][\A l \in Lists :
          (lastOp'.op \in Pops /\ lastOp'.list = l /\ len(lists[l]) = 0) =>
              /\ lastOp'.ret = None
              /\ lists'[l] = LinkedList_new
              /\ lists' = lists
              /\ heap' = heap
              /\ ~panicked' /\ ~ub']_vars

\* A pop that returned None on the donor of the latest append, the receiver
\* holding the donated nodes.
C5_Witness ==
    /\ lastOp.op \in Pops
    /\ lastOp.pre = 0
    /\ lastOp.ret = None
    /\ donor = lastOp.list
    /\ lists[OtherList(lastOp.list)].len >= 2

\* C6: after A.append(B) on two distinct lists holding the sequences A and B
\* (either may be empty), the receiver reads front to back as A ++ B, by the
\* forward walk and by repeated pop_front, its len is |A| + |B|, and it
\* satisfies the link invariant.
C6_AppendConcatenates ==
    [][lastOp'.op = "append" =>
          LET l == lastOp'.list
              o == lastOp'.other
              A == Elements(heap, lists[l])
              B == Elements(heap, lists[o])
          IN  /\ Elements(heap', lists'[l]) = A \o B
              /\ Drain(heap', lists'[l], WalkFuel) = A \o B
              /\ len(lists'[l]) = Len(A) + Len(B)
              /\ check_links(heap', lists'[l])]_vars

\* An append of a non-empty donor onto a non-empty receiver.
C6_Witness ==
    /\ lastOp.op = "append"
    /\ lastOp.pre >= 1
    /\ len(lists[lastOp.list]) > lastOp.pre
    /\ Len(Elements(heap, lists[lastOp.list])) >= 3

\* C7: after A.append(B) the donor B is empty (head = None, tail = None,
\* len = 0), and every later push or pop on B acts on B as on a double-ended
\* sequence that started empty, keeps B's link invariant, and changes neither
\* the fields, nor the nodes, nor the link words and values of the receiver.
C7_DonorEmpty ==
    lastOp.op = "append" => lists[lastOp.other] = LinkedList_new

C7_DonorStep ==
    (lastOp'.op \in Pushes \cup Pops /\ donor = lastOp'.list) =>
        LET c == lastOp'
            B == c.list
            A == OtherList(B)
            s == Elements(heap, lists[B])
            t == Elements(heap', lists'[B])
            nodesA == ForwardWalk(heap, lists[A]).nodes
        IN  /\ c.op = "push_front" => t = <<c.elem>> \o s
            /\ c.op = "push_back" => t = s \o <<c.elem>>
            /\ c.op = "pop_front" =>
                   IF s = <<>> THEN c.ret = None /\ t = <<>>
                   ELSE c.ret = Some(s[1]) /\ t = Tail(s)
            /\ c.op = "pop_back" =>
                   IF s = <<>> THEN c.ret = None /\ t = <<>>
                   ELSE c.ret = Some(s[Len(s)]) /\ t = SubSeq(s, 1, Len(s) - 1)
            /\ check_links(heap', lists'[B])
            /\ lists'[A] = lists[A]
            /\ ForwardWalk(heap', lists'[A]).nodes = nodesA
            /\ \A i \in 1..Len(nodesA) : heap'[nodesA[i]] = heap[nodesA[i]]

C7_DonorUsable == [](C7_DonorEmpty) /\ [][C7_DonorStep]_vars

\* The former donor, refilled by pushes after the append, pops a value while
\* the receiver holds two nodes.
C7_Witness ==
    /\ lastOp.op = "pop_back"
    /\ donor = lastOp.list
    /\ lastOp.ret # None
    /\ lastOp.pre >= 1
    /\ lists[OtherList(lastOp.list)].len >= 2

\* C14: in every state reachable by push_front, push_back, pop_front,
\* pop_back and append, for each list head is None if and only if tail is
\* None if and only if len is 0.
C14_EmptyIffNone ==
    \A l \in Lists :
        /\ (lists[l].head = None) <=> (lists[l].tail = None)
        /\ (lists[l].tail = None) <=> (len(lists[l]) = 0)

\* A pop_front that removed the only node of a list, while the other list
\* holds nodes.
C14_Witness ==
    /\ lastOp.op = "pop_front"
    /\ lastOp.pre = 1
    /\ lastOp.ret # None
    /\ lists[lastOp.list] = LinkedList_new
    /\ lists[OtherList(lastOp.list)].head # None

\* The addresses that hold a node.
Allocated(h) == {a \in DOMAIN h : h[a].alloc}
SetOf(seq) == {seq[i] : i \in 1..Len(seq)}

\* The nodes reachable from the heads of distinct lists are disjoint and
\* together they are the allocated nodes.
C15_Owned ==
    /\ \A l, o \in Lists : l # o => SetOf(NodesOf(l)) \cap SetOf(NodesOf(o)) = {}
    /\ UNION {SetOf(NodesOf(l)) : l \in Lists} = Allocated(heap)

\* Each push allocates one node, each pop that returns a value frees the one
\* node that held it, a pop that returns None and an append allocate and
\* free none.
C15_Step ==
    LET c == lastOp'
        before == Allocated(heap)
        after == Allocated(heap')
        old == ForwardWalk(heap, lists[c.list]).nodes
    IN  /\ c.op \in Pushes =>
               \E a \in after \ before :
                   /\ after = before \cup {a}
                   /\ heap'[a].element = c.elem
        /\ (c.op \in Pops /\ c.ret # None) =>
               LET x == IF c.op = "pop_front" THEN old[1] ELSE old[Len(old)]
               IN  /\ x \in before
                   /\ after = before \ {x}
                   /\ heap[x].element = c.ret[1]
        /\ (c.op \in Pops /\ c.ret = None) => after = before
        /\ c.op = "append" => after = before

\* C15: after any sequence of pushes, pops and appends over the lists, the
\* sets of nodes reachable from the heads of distinct lists are pairwise
\* disjoint and their union is the set of allocated nodes; a push allocates
\* exactly one node, a successful pop frees exactly the node whose value it
\* returns, and append allocates and frees none.
C15_ExclusiveOwnership == [](C15_Owned) /\ [][C15_Step]_vars

\* A pop_back freed the last node of a list of two while the other list
\* owns a node.
C15_Witness ==
    /\ lastOp.op = "pop_back"
    /\ lastOp.pre = 2
    /\ lastOp.ret # None
    /\ Cardinality(Allocated(heap)) = 2
    /\ Len(NodesOf(lastOp.list)) = 1
    /\ Len(NodesOf(OtherList(lastOp.list))) = 1

-----------------------------------------------------------------------------
(* SpecFifo: a caller that extends the empty list `m` with values of its
   choice (Extend::extend: one push_back per value) and then pops them all,
   and once more, either from the front or from the back *)

FifoInit ==
    /\ ListInit
    /\ phase = "push" /\ pushed = <<>> /\ popped = <<>>
    /\ CountIdle /\ IterIdle /\ ExtIdle

FifoPush(elem, a) ==
    /\ phase = "push"
    /\ PushBack("m", elem, a)
    /\ pushed' = Append(pushed, elem)
    /\ UNCHANGED <<phase, popped, countVars, extVars, iterVars>>

FifoPopFront ==
    /\ phase \in {"push", "pop_front"}
    /\ Len(popped) <= Len(pushed)
    /\ PopFront("m")
    /\ phase' = "pop_front"
    /\ popped' = Append(popped, lastOp'.ret)
    /\ UNCHANGED <<pushed, countVars, extVars, iterVars>>

FifoPopBack ==
    /\ phase \in {"push", "pop_back"}
    /\ Len(popped) <= Len(pushed)
    /\ PopBack("m")
    /\ phase' = "pop_back"
    /\ popped' = Append(popped, lastOp'.ret)
    /\ UNCHANGED <<pushed, countVars, extVars, iterVars>>

FifoNext ==
    \/ \E elem \in Val, a \in Addr : FifoPush(elem, a)
    \/ FifoPopFront
    \/ FifoPopBack

SpecFifo == FifoInit /\ [][FifoNext]_vars

\* C3: after v1..vn were pushed with push_back onto an empty list, n
\* successive pop_front calls return v1..vn in that order, or else n
\* successive pop_back calls return vn..v1; the pop after the n-th returns
\* no value.
C3_FifoLifo ==
    LET n == Len(pushed)
    IN  /\ phase = "pop_front" =>
               \A i \in 1..Len(popped) :
                   popped[i] = IF i <= n THEN Some(pushed[i]) ELSE None
        /\ phase = "pop_back" =>
               \A i \in 1..Len(popped) :
                   popped[i] = IF i <= n THEN Some(pushed[n + 1 - i]) ELSE None

\* Three values, not all equal, popped from the back, and the fourth pop.
C3_Witness ==
    /\ phase = "pop_back"
    /\ Len(pushed) = 3
    /\ pushed[1] # pushed[3]
    /\ Len(popped) = 4

-----------------------------------------------------------------------------
(* SpecCount: a caller that pushes and pops at both ends of the list `m`,
   which starts empty, and counts its pushes and the pops that returned a
   value *)

CountInit ==
    ListInit /\ ScriptIdle /\ IterIdle /\ ExtIdle /\ pushes = 0 /\ pops = 0

Counted(ret) == IF ret = None THEN 0 ELSE 1

CountPushFront(elem, a) ==
    /\ pushes < MaxPushes
    /\ PushFront("m", elem, a)
    /\ pushes' = pushes + 1
    /\ UNCHANGED <<pops, scriptVars, iterVars, extVars>>

CountPushBack(elem, a) ==
    /\ pushes < MaxPushes
    /\ PushBack("m", elem, a)
    /\ pushes' = pushes + 1
    /\ UNCHANGED <<pops, scriptVars, iterVars, extVars>>

CountPopFront ==
    /\ PopFront("m")
    /\ pops' = pops + Counted(lastOp'.ret)
    /\ UNCHANGED <<pushes, scriptVars, iterVars, extVars>>

CountPopBack ==
    /\ PopBack("m")
    /\ pops' = pops + Counted(lastOp'.ret)
    /\ UNCHANGED <<pushes, scriptVars, iterVars, extVars>>

CountNext ==
    \/ \E elem \in Val, a \in Addr : CountPushFront(elem, a)
    \/ \E elem \in Val, a \in Addr : CountPushBack(elem, a)
    \/ CountPopFront
    \/ CountPopBack

SpecCount == CountInit /\ [][CountNext]_vars

\* C4: after any sequence of push_front, push_back, pop_front and pop_back
\* on a list that starts empty, len() is the number of pushes minus the
\* number of pops that returned a value; it never underflows: a pop that
\* returned no value found len at 0 and left it at 0.
C4_LenIsNetCount ==
    /\ len(lists["m"]) = pushes - pops
    /\ pops <= pushes
    /\ ~panicked
    /\ (lastOp.op \in Pops /\ lastOp.ret = None) =>
           (lastOp.pre = 0 /\ len(lists["m"]) = 0)

\* A pop on the list emptied again after more pushes than there are addresses.
C4_Witness ==
    /\ pushes > MaxAddr
    /\ pops = pushes
    /\ lastOp.op \in Pops
    /\ lastOp.ret = None

-----------------------------------------------------------------------------
(* SpecIter: the list `m` is built from the sequence 1, 2, ..., n
   (list_from of tests.rs: from_iter, extend, one push_back per value), then
   borrowed by an iterator that is read from both ends in any order *)

NoReads == [fwd |-> <<>>, back |-> <<>>]

IterCall(op, i, ret, node) ==
    [op |-> op, iter |-> i, ret |-> ret, node |-> node, pre |-> iters[i].len]

IterInitOn(addrs) ==
    /\ heap = [a \in addrs |-> FreeCell]
    /\ lists = [l \in Lists |-> LinkedList_new]
    /\ lastOp = [op |-> "new", list |-> "m", other |-> "n", elem |-> 0,
                 ret |-> None, pre |-> 0]
    /\ ub = FALSE /\ panicked = FALSE /\ donor = "none"
    /\ phase = "build" /\ pushed = <<>> /\ popped = <<>>
    /\ CountIdle /\ IterIdle /\ ExtIdle

IterInit == IterInitOn(IterAddr)

\* One step of extend: push_back of the next value of the source sequence
IterBuild(a) ==
    /\ phase = "build"
    /\ PushBack("m", Len(pushed) + 1, a)
    /\ pushed' = Append(pushed, Len(pushed) + 1)
    /\ UNCHANGED <<phase, popped, countVars, extVars, iterVars>>

\* list.iter(): from here on the list is borrowed and no mutator runs
IterCreate ==
    /\ Running
    /\ phase = "build"
    /\ phase' = "iterate"
    /\ iters' = [i \in {"it"} |-> iter(lists["m"])]
    /\ lastOp' = [op |-> "iter", iter |-> "it", ret |-> None, node |-> None,
                  pre |-> lists["m"].len]
    /\ UNCHANGED <<heap, lists, ub, panicked, donor, pushed, popped, countVars, extVars, fmts>>

IterFrame ==
    UNCHANGED <<heap, lists, ub, panicked, donor, scriptVars, countVars, extVars, fmts>>

\* The read a call makes is of an address that holds a node, or it reads none.
ReadsNode(r) == IF r.node = None THEN TRUE ELSE Live(heap, r.node[1])

IterNext(i) ==
    /\ Running
    /\ i \in DOMAIN iters
    /\ LET r == Iter_next(iters[i], heap)
       IN  /\ ReadsNode(r)
           /\ iters' = [iters EXCEPT ![i] = r.it]
           /\ lastOp' = IterCall("next", i, r.ret, r.node)
    /\ IterFrame

IterNextBack(i) ==
    /\ Running
    /\ i \in DOMAIN iters
    /\ LET r == Iter_next_back(iters[i], heap)
       IN  /\ ReadsNode(r)
           /\ iters' = [iters EXCEPT ![i] = r.it]
           /\ lastOp' = IterCall("next_back", i, r.ret, r.node)
    /\ IterFrame

\* it.last(): the iterator is moved into the call and dropped by it
IterLast(i) ==
    /\ Running
    /\ i \in DOMAIN iters
    /\ LET r == Iter_last(iters[i], heap)
       IN  /\ ReadsNode(r)
           /\ lastOp' = IterCall("last", i, r.ret, r.node)
    /\ iters' = [j \in DOMAIN iters \ {i} |-> iters[j]]
    /\ IterFrame

IterSizeHint(i) ==
    /\ Running
    /\ i \in DOMAIN iters
    /\ lastOp' = IterCall("size_hint", i, Iter_size_hint(iters[i]), None)
    /\ UNCHANGED iters
    /\ IterFrame

\* What the caller has seen an iterator yield, kept beside the call: the
\* node and the value of each successful read, per direction.
Record(i) ==
    LET c == lastOp'
        y == [node |-> c.node[1], value |-> c.ret[1]]
    IN  seen' =
          IF c.op = "iter" THEN [j \in {i} |-> NoReads]
          ELSE IF c.op = "last" THEN [j \in DOMAIN seen \ {i} |-> seen[j]]
          ELSE IF c.op = "next" /\ c.ret # None
               THEN [seen EXCEPT ![i].fwd = Append(@, y)]
          ELSE IF c.op = "next_back" /\ c.ret # None
               THEN [seen EXCEPT ![i].back = Append(@, y)]
          ELSE seen

IterNextStep ==
    \/ \E a \in IterAddr : IterBuild(a)
    \/ IterCreate /\ Record("it")
    \/ IterNext("it") /\ Record("it")
    \/ IterNextBack("it") /\ Record("it")
    \/ IterLast("it") /\ Record("it")
    \/ IterSizeHint("it") /\ Record("it")

SpecIter == IterInit /\ [][IterNextStep]_vars

Reads == {"next", "next_back"}

\* The values and the nodes a sequence of yields holds.
Values(ys) == [k \in 1..Len(ys) |-> ys[k].value]
YieldedNodes(ys) == {ys[k].node : k \in 1..Len(ys)}

\* C8: for an iterator created on a list holding e1..en, under every
\* interleaving of next and next_back, the k-th forward read yields e_k and
\* the j-th backward read yields e_(n+1-j) while the reads made are at most
\* n, and the remaining count is n minus the number of reads.
C8_BidirectionalReads ==
    \A i \in DOMAIN iters :
        LET n == Len(pushed)
            f == Values(seen[i].fwd)
            b == Values(seen[i].back)
        IN  /\ Len(f) + Len(b) <= n
            /\ \A k \in 1..Len(f) : f[k] = pushed[k]
            /\ \A j \in 1..Len(b) : b[j] = pushed[n + 1 - j]
            /\ iters[i].len = n - (Len(f) + Len(b))
            /\ (lastOp.op \in Reads /\ lastOp.iter = i /\ lastOp.pre > 0) =>
                   lastOp.ret # None

\* On [1,2,3,4,5]: a forward, a backward and a forward read yielded 1, 5, 2
\* and left 2 remaining.
C8_Witness ==
    /\ pushed = <<1, 2, 3, 4, 5>>
    /\ "it" \in DOMAIN iters
    /\ Values(seen["it"].fwd) = <<1, 2>>
    /\ Values(seen["it"].back) = <<5>>
    /\ lastOp.op = "next" /\ lastOp.ret = Some(2)
    /\ iters["it"].len = 2

\* C9: the remaining counter alone ends the iteration: over any interleaving
\* of next and next_back the reads yield at most n elements for a list of
\* len n at creation, no node is yielded twice, every read is of a node of
\* the list, and a read at remaining = 0 returns None and dereferences
\* nothing, whatever the head and tail cursors hold.
C9_RemainingTerminates ==
    \A i \in DOMAIN iters :
        LET ys == seen[i].fwd \o seen[i].back
        IN  /\ Len(ys) <= Len(pushed)
            /\ Cardinality(YieldedNodes(ys)) = Len(ys)
            /\ YieldedNodes(seen[i].fwd) \cap YieldedNodes(seen[i].back) = {}
            /\ ReadsNode(Iter_next(iters[i], heap))
            /\ ReadsNode(Iter_next_back(iters[i], heap))
            /\ (lastOp.op \in Reads /\ lastOp.iter = i /\ lastOp.pre = 0) =>
                   (lastOp.ret = None /\ lastOp.node = None)
            /\ iters[i].len = 0 =>
                   /\ Iter_next(iters[i], heap).ret = None
                   /\ Iter_next(iters[i], heap).node = None
                   /\ Iter_next_back(iters[i], heap).ret = None
                   /\ Iter_next_back(iters[i], heap).node = None

\* A forward read at remaining = 0 that returned None while the head cursor
\* still held the address of a node a backward read had yielded.
C9_Witness ==
    /\ lastOp.op = "next"
    /\ lastOp.pre = 0
    /\ lastOp.ret = None
    /\ "it" \in DOMAIN iters
    /\ iters["it"].head # None
    /\ iters["it"].head[1] \in YieldedNodes(seen["it"].back)
    /\ Len(seen["it"].fwd) >= 2

-----------------------------------------------------------------------------
(* SpecIterDebug: SpecIter with every operation of an iterator: it can also
   be replaced by its clone and Debug-formatted.  A read or a write at an
   address that holds no node is undefined behaviour: the call reads any
   cell at all, and the program's behaviour ends there. *)

\* let it = it.clone(): the clone takes the place of the iterator
IterClone(i) ==
    /\ Running
    /\ i \in DOMAIN iters
    /\ iters' = [iters EXCEPT ![i] = Iter_clone(iters[i])]
    /\ lastOp' = IterCall("clone", i, None, None)
    /\ IterFrame

\* format!("{:?}", it)
IterFmt(i) ==
    /\ Running
    /\ i \in DOMAIN iters
    /\ fmts < MaxFmt
    /\ LET r == Iter_fmt(iters[i], heap)
       IN  /\ ~r.ub
           /\ heap' = r.heap
           /\ lastOp' = IterCall("fmt", i, r.out, None)
    /\ fmts' = fmts + 1
    /\ UNCHANGED <<lists, ub, panicked, donor, scriptVars, countVars, extVars, iters>>

\* format!("{:?}", it) with a cursor at an address that holds no node
IterFmtUB(i) ==
    /\ Running
    /\ i \in DOMAIN iters
    /\ fmts < MaxFmt
    /\ LET r == Iter_fmt(iters[i], heap)
       IN  /\ r.ub
           /\ heap' \in {heap, r.heap}
           /\ lastOp' = IterCall("fmt", i, None, None)
    /\ fmts' = fmts + 1
    /\ ub' = TRUE
    /\ UNCHANGED <<lists, panicked, donor, scriptVars, countVars, extVars, iters>>

\* What a read of an address that holds no node can return.
GarbageCells ==
    [alloc : {FALSE}, prev_x_next : 0..MaxDebugAddr, element : 0..1]

\* next, next_back or last with the cursor at an address that holds no node
IterReadUB(i, op) ==
    /\ Running
    /\ i \in DOMAIN iters
    /\ LET it == iters[i]
           at == IF op = "next" THEN it.head ELSE it.tail
       IN  /\ it.len # 0
           /\ at # None
           /\ ~Live(heap, at[1])
           /\ \E cell \in GarbageCells :
                  LET r == IF op = "next" THEN next_read(it, at[1], cell)
                           ELSE next_back_read(it, at[1], cell)
                  IN  /\ iters' = IF op = "last"
                                  THEN [j \in DOMAIN iters \ {i} |-> iters[j]]
                                  ELSE [iters EXCEPT ![i] = r.it]
                      /\ lastOp' = IterCall(op, i, r.ret, r.node)
    /\ ub' = TRUE
    /\ UNCHANGED <<heap, lists, panicked, donor, scriptVars, countVars, extVars, fmts>>

DebugInit == IterInitOn(DebugAddr)

IterDebugNext ==
    \/ \E a \in DebugAddr : IterBuild(a)
    \/ IterCreate /\ UNCHANGED seen
    \/ IterNext("it") /\ UNCHANGED seen
    \/ IterNextBack("it") /\ UNCHANGED seen
    \/ IterLast("it") /\ UNCHANGED seen
    \/ IterSizeHint("it") /\ UNCHANGED seen
    \/ IterClone("it") /\ UNCHANGED seen
    \/ IterFmt("it") /\ UNCHANGED seen
    \/ IterFmtUB("it") /\ UNCHANGED seen
    \/ \E op \in {"next", "next_back", "last"} :
          IterReadUB("it", op) /\ UNCHANGED seen

SpecIterDebug == DebugInit /\ [][IterDebugNext]_vars

IterOps == {"next", "next_back", "last", "clone", "size_hint", "fmt"}

\* C10: no operation on an iterator (next, next_back, last, clone,
\* size_hint, Debug formatting), in any iterator state, changes the list's
\* head, tail or len or the link word or value of any node, and the list's
\* link invariant holds after it.
C10_IterReadOnly ==
    [][lastOp'.op \in IterOps =>
          /\ lists' = lists
          /\ heap' = heap
          /\ check_links(heap', lists'["m"])]_vars

-----------------------------------------------------------------------------
(* SpecDrop: the list `m` is built by pushes at both ends and then dropped
   (Drop for LinkedList).  The destructor of a payload is code of the
   caller: it returns or it panics.  drop(node) frees the box of the node on
   both paths. *)

DropInit ==
    /\ ListInit
    /\ phase = "build" /\ pushed = <<>> /\ popped = <<>>
    /\ CountIdle /\ IterIdle /\ ExtIdle

DropFrame == UNCHANGED <<scriptVars, countVars, iterVars, abs, threads>>

DropBuildFront(elem, a) ==
    /\ teardown.pc = "none"
    /\ PushFront("m", elem, a)
    /\ UNCHANGED teardown
    /\ DropFrame

DropBuildBack(elem, a) ==
    /\ teardown.pc = "none"
    /\ PushBack("m", elem, a)
    /\ UNCHANGED teardown
    /\ DropFrame

\* drop(m) is entered: the ghost `owned` keeps the nodes the list holds
DropEnter ==
    /\ Running
    /\ teardown.pc = "none"
    /\ teardown' = [pc |-> "loop", node |-> None, reclaimed |-> <<>>,
                    panics |-> 0, owned |-> NodesOf("m")]
    /\ UNCHANGED listVars
    /\ DropFrame

\* One pop_front_node of a drain loop at `at`: a node goes on to `destroy`,
\* None ends the loop at `end`.
DrainPop(at, destroy, end) ==
    /\ Running
    /\ teardown.pc = at
    /\ LET r == pop_front_node(lists["m"], heap)
       IN  /\ heap' = r.heap
           /\ lists' = [lists EXCEPT !["m"] = r.self]
           /\ ub' = r.ub
           /\ panicked' = r.panic
           /\ teardown' = [teardown EXCEPT
                              !.pc = IF r.node = None THEN end ELSE destroy,
                              !.node = r.node]
    /\ UNCHANGED <<lastOp, donor>>

\* The box of the node in hand is dropped at `at`: the destructor of the
\* payload runs and returns (on to `ok`) or panics (on to `panic`), and the
\* cell is freed.  Freeing a cell that holds no node is a double free.
DrainDestroy(at, ok, panic, panics) ==
    /\ Running
    /\ teardown.pc = at
    /\ LET node == teardown.node[1]
       IN  /\ heap' = Free(heap, node)
           /\ ub' = ~Live(heap, node)
           /\ teardown' = [teardown EXCEPT
                              !.pc = IF panics THEN panic ELSE ok,
                              !.node = None,
                              !.reclaimed = Append(@, node),
                              !.panics = IF panics THEN @ + 1 ELSE @]
    /\ UNCHANGED <<lists, lastOp, panicked, donor>>

\* while let Some(node) = self.pop_front_node()
DropPop == DrainPop("loop", "destroy", "done") /\ DropFrame

\* let guard = DropGuard(self); drop(node); mem::forget(guard): a panic of
\* the destructor unwinds into DropGuard::drop
DropDestroy(panics) ==
    DrainDestroy("destroy", "loop", "guard", panics) /\ DropFrame

\* DropGuard::drop that returns at once
DropGuardPop_no_drain ==
    /\ Running
    /\ teardown.pc = "guard"
    /\ teardown' = [teardown EXCEPT !.pc = "unwound"]
    /\ UNCHANGED listVars
    /\ DropFrame

\* DropGuard::drop: while self.0.pop_front_node().is_some() {}; when it
\* returns the panic goes on unwinding out of drop
DropGuardPop == DrainPop("guard", "guard_destroy", "unwound") /\ DropFrame

\* The temporary Option<Box<Node>> of the loop condition is dropped; a panic
\* of the destructor while unwinding aborts the process
DropGuardDestroy(panics) ==
    DrainDestroy("guard_destroy", "guard", "aborted", panics) /\ DropFrame

DropStep ==
    \/ DropPop
    \/ \E panics \in BOOLEAN : DropDestroy(panics)
    \/ DropGuardPop
    \/ \E panics \in BOOLEAN : DropGuardDestroy(panics)

DropNext ==
    \/ \E elem \in Val, a \in Addr : DropBuildFront(elem, a)
    \/ \E elem \in Val, a \in Addr : DropBuildBack(elem, a)
    \/ DropEnter
    \/ DropPop
    \/ \E panics \in BOOLEAN : DropDestroy(panics)
    \/ DropGuardPop
    \/ \E panics \in BOOLEAN : DropGuardDestroy(panics)

SpecDrop == DropInit /\ [][DropNext]_vars

\* A drop that was entered runs on: the thread that runs it is scheduled
\* until drop returns, unwinds or aborts.
SpecDropFair == SpecDrop /\ WF_vars(DropStep)

DropEnded == {"done", "unwound", "aborted"}
InTeardown == teardown.pc # "none"
NoDuplicates(s) == \A i, j \in 1..Len(s) : s[i] = s[j] => i = j
IsPrefix(s, t) == Len(s) <= Len(t) /\ s = SubSeq(t, 1, Len(s))
AllFree == \A a \in DOMAIN heap : ~heap[a].alloc

\* C11: teardown of a list of len n ends; it reclaims every node exactly
\* once, in the order of n pop-front steps; a panic of one payload destructor
\* leaves the guard to pop and reclaim every remaining node before the panic
\* unwinds out of drop, and only a second panic, in the guarded drain, aborts.
C11_TeardownReclaims ==
    /\ (teardown.pc = "loop") ~> (teardown.pc \in DropEnded)
    /\ [](InTeardown =>
            /\ ~ub /\ ~panicked
            /\ NoDuplicates(teardown.reclaimed)
            /\ IsPrefix(teardown.reclaimed, teardown.owned)
            /\ teardown.pc = "done" =>
                   /\ teardown.panics = 0
                   /\ teardown.reclaimed = teardown.owned
                   /\ AllFree
                   /\ lists["m"] = LinkedList_new
            /\ teardown.pc = "unwound" =>
                   /\ teardown.panics = 1
                   /\ teardown.reclaimed = teardown.owned
                   /\ AllFree
                   /\ lists["m"] = LinkedList_new
            /\ teardown.pc = "aborted" <=> teardown.panics = 2
            /\ teardown.panics <= 2)

\* The destructor of the first of three payloads panicked and the guard
\* reclaimed the other two nodes before the panic left drop.
C11_Witness ==
    /\ teardown.pc = "unwound"
    /\ Len(teardown.owned) = 3
    /\ teardown.reclaimed = teardown.owned
    /\ AllFree

\* The positions of drop at which the destructor of a payload runs.
Destroying == {"destroy", "guard_destroy"}

\* C16: at every moment of teardown at which a payload destructor runs, the
\* node being destroyed was unlinked by pop_front_node: it is still
\* allocated, it is not reachable from the list, and the list's head, tail,
\* len and the link words of the nodes not yet drained satisfy the link
\* invariant, forward and backward.
C16_UnlinkedBeforeDestroy ==
    teardown.pc \in Destroying =>
        LET x == teardown.node[1]
            rest == NodesOf("m")
        IN  /\ ~ub
            /\ Live(heap, x)
            /\ x \notin SetOf(rest)
            /\ check_links(heap, lists["m"])
            /\ ReverseWalk(heap, lists["m"]).ok
            /\ ReverseWalk(heap, lists["m"]).nodes = Reverse(rest)
            /\ \A i \in 1..Len(rest) : Live(heap, rest[i])
            /\ teardown.reclaimed \o <<x>> \o rest = teardown.owned

\* The destructor of the second payload runs in the guarded drain, after
\* the first one panicked, with one node still linked.
C16_Witness ==
    /\ teardown.pc = "guard_destroy"
    /\ teardown.panics = 1
    /\ Len(teardown.reclaimed) = 1
    /\ Len(NodesOf("m")) = 1
    /\ Len(teardown.owned) = 3

-----------------------------------------------------------------------------
(* SpecPack: a new node has the addresses `a` and `b` of its two neighbours
   packed into its link word by Node::xor_assign, in either order, and one
   of them is unpacked again by Node::xor, given the other.  The node is the
   only cell of the heap; a and b are any optional addresses. *)

PackAddr == 1..MaxPackAddr
OptionPackAddr == {None} \cup {Some(x) : x \in PackAddr}

PackInit ==
    /\ \E a, b \in OptionPackAddr :
           lastOp = [op |-> "new", a |-> a, b |-> b, packed |-> {},
                     given |-> "none", ret |-> None]
    /\ heap = <<Node_new(1)>>
    /\ lists = [l \in Lists |-> LinkedList_new]
    /\ ub = FALSE /\ panicked = FALSE /\ donor = "none"
    /\ ScriptIdle /\ CountIdle /\ IterIdle /\ ExtIdle

PackFrame ==
    UNCHANGED <<lists, ub, panicked, donor, scriptVars, countVars, iterVars,
                extVars>>

\* node.xor_assign(a) or node.xor_assign(b)
PackAssign(side) ==
    /\ side \notin lastOp.packed
    /\ heap' = Store_xor_assign(heap, 1, lastOp[side])
    /\ lastOp' = [lastOp EXCEPT !.op = "xor_assign", !.packed = @ \cup {side}]
    /\ PackFrame

\* node.xor(a) or node.xor(b) of the node that holds pack(a, b)
PackXor(side) ==
    /\ lastOp.packed = {"a", "b"}
    /\ lastOp' = [lastOp EXCEPT !.op = "xor", !.given = side,
                                !.ret = xor(heap[1], lastOp[side])]
    /\ UNCHANGED heap
    /\ PackFrame

PackNext ==
    \/ \E side \in {"a", "b"} : PackAssign(side)
    \/ \E side \in {"a", "b"} : PackXor(side)

SpecPack == PackInit /\ [][PackNext]_vars

\* C12: for all optional addresses a and b, with None encoded as 0, the node
\* whose link word is a XOR b unpacks to b given a and to a given b; the
\* word 0 decodes to None.
C12_PackUnpackInverse ==
    /\ lastOp.op = "xor" =>
           /\ lastOp.given = "a" => lastOp.ret = lastOp.b
           /\ lastOp.given = "b" => lastOp.ret = lastOp.a
    /\ lastOp.packed = {"a", "b"} =>
           /\ heap[1].prev_x_next = BitXor(as_usize(lastOp.a), as_usize(lastOp.b))
           /\ heap[1].prev_x_next < UsizeModulus
           /\ heap[1].element = 1

\* The missing neighbour unpacked from the link word of an end node: given
\* the largest address, the result is None.
C12_Witness ==
    /\ lastOp.op = "xor"
    /\ lastOp.a = Some(MaxPackAddr)
    /\ lastOp.b = None
    /\ lastOp.given = "a"
    /\ lastOp.ret = None

-----------------------------------------------------------------------------
(* SpecShared: the list `m` is built from 1, 2, ..., n and then shared by
   reference with two threads (Sync for LinkedList).  Each thread makes its
   own iterator and calls next, next_back, len, and Debug-formats the list
   or its iterator.  Nothing orders the calls of different threads: a call
   begins, other threads' calls may begin and end, and it ends.  Two calls in
   progress at once of which one writes a node the other reads or writes are
   a data race, which is undefined behaviour. *)

Threads == {"t1", "t2"}
ThreadOps == {"next", "next_back", "len", "fmt_list", "fmt"}
ThreadIdle ==
    [pc |-> "idle", reads |-> {}, writes |-> {}, race |-> FALSE, calls |-> 0,
     formatted |-> FALSE]
\* The thread is between two calls again, one more call made; `formatted`
\* keeps whether it has Debug-formatted its own iterator.
Returned(c) ==
    [ThreadIdle EXCEPT !.calls = c.calls + 1,
                       !.formatted = c.formatted \/ c.pc = "fmt"]

\* The addresses the forward reads of Debug for LinkedList dereference.
RECURSIVE EntriesReads(_, _)
EntriesReads(it, h) ==
    LET r == Iter_next(it, h)
    IN  IF r.node = None THEN {}
        ELSE {r.node[1]} \cup
             (IF Live(h, r.node[1]) THEN EntriesReads(r.it, h) ELSE {})

AtCursor(it, cursor) ==
    IF it.len = 0 \/ cursor = None THEN {} ELSE {cursor[1]}

\* The nodes a call writes: only Debug for Iter stores, into the nodes at
\* head and at tail.
WriteSet(op, it) ==
    IF op # "fmt" THEN {}
    ELSE (IF it.head = None THEN {} ELSE {it.head[1]}) \cup
         (IF it.tail = None THEN {} ELSE {it.tail[1]})

\* The nodes a call reads.
ReadSet(op, it, list, h) ==
    CASE op = "next" -> AtCursor(it, it.head)
      [] op = "next_back" -> AtCursor(it, it.tail)
      [] op = "len" -> {}
      [] op = "fmt_list" -> EntriesReads(iter(list), h)
      [] op = "fmt" ->
             WriteSet(op, it) \cup
             EntriesReads(iter([head |-> it.head, tail |-> it.tail,
                                len |-> it.len]), Iter_fmt(it, h).heap)

\* Two calls in progress conflict when one writes what the other accesses.
Conflict(c, d) ==
    \/ c.writes \cap (d.reads \cup d.writes) # {}
    \/ d.writes \cap (c.reads \cup c.writes) # {}

SharedInit ==
    /\ ListInit
    /\ phase = "build" /\ pushed = <<>> /\ popped = <<>>
    /\ CountIdle /\ IterIdle /\ ExtIdle

SharedFrame == UNCHANGED <<countVars, abs, teardown>>

\* One step of extend: push_back of the next value of the source sequence
SharedBuild(a) ==
    /\ phase = "build"
    /\ PushBack("m", Len(pushed) + 1, a)
    /\ pushed' = Append(pushed, Len(pushed) + 1)
    /\ UNCHANGED <<phase, popped, iterVars, threads>>
    /\ SharedFrame

\* thread::spawn with &m for each thread, which begins with m.iter()
Share ==
    /\ Running
    /\ phase = "build"
    /\ phase' = "shared"
    /\ iters' = [t \in Threads |-> iter(lists["m"])]
    /\ seen' = [t \in Threads |-> NoReads]
    /\ threads' = [t \in Threads |-> ThreadIdle]
    /\ lastOp' = [op |-> "iter", iter |-> "t1", ret |-> None, node |-> None,
                  pre |-> lists["m"].len]
    /\ UNCHANGED <<heap, lists, ub, panicked, donor, pushed, popped, fmts>>
    /\ SharedFrame

\* A thread enters a call; it races with the calls in progress that
\* conflict with it.
Begin(t, op) ==
    /\ Running
    /\ phase = "shared"
    /\ threads[t].pc = "idle"
    /\ threads[t].calls < MaxThreadCalls
    /\ op \in {"fmt", "fmt_list"} => fmts < MaxFmt
    /\ LET c == [pc |-> op,
                 reads |-> ReadSet(op, iters[t], lists["m"], heap),
                 writes |-> WriteSet(op, iters[t]),
                 race |-> FALSE,
                 calls |-> threads[t].calls,
                 formatted |-> threads[t].formatted]
           race == \E u \in Threads \ {t} : Conflict(c, threads[u])
       IN  /\ threads' = [u \in Threads |->
                            IF u = t THEN [c EXCEPT !.race = race]
                            ELSE [threads[u] EXCEPT
                                    !.race = @ \/ Conflict(c, threads[u])]]
           /\ ub' = race
    /\ fmts' = IF op \in {"fmt", "fmt_list"} THEN fmts + 1 ELSE fmts
    /\ UNCHANGED <<heap, lists, lastOp, panicked, donor, scriptVars, iters,
                   seen>>
    /\ SharedFrame

\* What the read of the address `at` returns: the node it holds, or any
\* cell at all if it holds none.
CellsAt(at) == IF Live(heap, at) THEN {heap[at]} ELSE GarbageCells

\* The call of a thread ends: it.next() or it.next_back()
EndRead(t) ==
    /\ Running
    /\ phase = "shared"
    /\ threads[t].pc \in {"next", "next_back"}
    /\ LET op == threads[t].pc
           it == iters[t]
           at == IF op = "next" THEN it.head ELSE it.tail
       IN  IF it.len = 0 \/ at = None
           THEN /\ lastOp' = IterCall(op, t, None, None)
                /\ UNCHANGED <<iters, ub>>
           ELSE \E cell \in CellsAt(at[1]) :
                  LET r == IF op = "next" THEN next_read(it, at[1], cell)
                           ELSE next_back_read(it, at[1], cell)
                  IN  /\ iters' = [iters EXCEPT ![t] = r.it]
                      /\ lastOp' = IterCall(op, t, r.ret, r.node)
                      /\ ub' = ~Live(heap, at[1])
    /\ Record(t)
    /\ threads' = [threads EXCEPT ![t] = Returned(@)]
    /\ UNCHANGED <<heap, lists, panicked, donor, scriptVars, fmts>>
    /\ SharedFrame

\* The call of a thread ends: m.len(), or format!("{:?}", m)
EndList(t) ==
    /\ Running
    /\ phase = "shared"
    /\ threads[t].pc \in {"len", "fmt_list"}
    /\ LET out == LinkedList_fmt(lists["m"], heap)
       IN  IF threads[t].pc = "len"
           THEN /\ lastOp' = IterCall("len", t, len(lists["m"]), None)
                /\ UNCHANGED ub
           ELSE /\ lastOp' = IterCall("fmt_list", t,
                                      IF out.ok THEN out.vals ELSE None, None)
                /\ ub' = ~out.ok
    /\ threads' = [threads EXCEPT ![t] = Returned(@)]
    /\ UNCHANGED <<heap, lists, panicked, donor, scriptVars, iterVars>>
    /\ SharedFrame

\* The call of a thread ends: format!("{:?}", it)
EndFmt(t) ==
    /\ Running
    /\ phase = "shared"
    /\ threads[t].pc = "fmt"
    /\ LET r == Iter_fmt(iters[t], heap)
       IN  /\ heap' \in (IF r.ub THEN {heap, r.heap} ELSE {r.heap})
           /\ lastOp' = IterCall("fmt", t, IF r.ub THEN None ELSE r.out, None)
           /\ ub' = r.ub
    /\ threads' = [threads EXCEPT ![t] = Returned(@)]
    /\ UNCHANGED <<lists, panicked, donor, scriptVars, iterVars>>
    /\ SharedFrame

SharedNext ==
    \/ \E a \in Addr : SharedBuild(a)
    \/ Share
    \/ \E t \in Threads, op \in ThreadOps : Begin(t, op)
    \/ \E t \in Threads : EndRead(t)
    \/ \E t \in Threads : EndList(t)
    \/ \E t \in Threads : EndFmt(t)

SpecShared == SharedInit /\ [][SharedNext]_vars

\* The calls of the threads that have ended.
ThreadCallEnds == lastOp' # lastOp /\ lastOp'.op \in ThreadOps

\* A thread that never formatted its own iterator reads what it would read
\* alone: the list front to back by next, back to front by next_back, n by
\* len and the whole list by Debug for LinkedList.
ReadsAsAlone(t) ==
    LET n == Len(pushed)
        f == Values(seen[t].fwd)
        b == Values(seen[t].back)
    IN  /\ \A k \in 1..Len(f) : f[k] = pushed[k]
        /\ \A j \in 1..Len(b) : b[j] = pushed[n + 1 - j]
        /\ iters[t].len = n - (Len(f) + Len(b))
        /\ lastOp.iter = t =>
               /\ (lastOp.op \in Reads /\ lastOp.pre > 0) => lastOp.ret # None
               /\ lastOp.op = "len" => lastOp.ret = n
               /\ lastOp.op = "fmt_list" => lastOp.ret = pushed

\* No call in progress has raced with another on a node.
SharedNoRace == phase = "shared" => \A t \in Threads : ~threads[t].race

\* No call in progress writes a node.
SharedNoWrite == phase = "shared" => \A t \in Threads : threads[t].writes = {}

SharedReadsAsAlone ==
    phase = "shared" =>
        \A t \in Threads : ~threads[t].formatted => ReadsAsAlone(t)

\* C13: while threads share the list by reference, each with its own
\* iterator, calling next, next_back, len and Debug-formatting the list or
\* their iterator, no call writes to the list or to a node, no two calls in
\* progress race on a node, and each thread reads what it would read alone.
C13_SharedReadOnly ==
    /\ [](SharedNoWrite /\ SharedNoRace /\ SharedReadsAsAlone)
    /\ [][ThreadCallEnds => (heap' = heap /\ lists' = lists)]_vars

-----------------------------------------------------------------------------
(* SpecFrame: the five mutating operations on the two lists in a heap of the
   addresses 1..MaxFrameAddr, in which a list can hold interior nodes on
   both sides of an append *)

FrameAddr == 1..MaxFrameAddr

FrameInit ==
    /\ heap = [a \in FrameAddr |-> FreeCell]
    /\ lists = [l \in Lists |-> LinkedList_new]
    /\ lastOp = [op |-> "new", list |-> "m", other |-> "n", elem |-> 0,
                 ret |-> None, pre |-> 0]
    /\ ub = FALSE /\ panicked = FALSE /\ donor = "none"
    /\ ScriptIdle /\ CountIdle /\ IterIdle /\ ExtIdle

\* The caller pushes the value 1 at the front and MaxVal at the back.
FrameNext ==
    \/ \E l \in Lists, a \in FrameAddr : PushFront(l, 1, a) /\ Idle
    \/ \E l \in Lists, a \in FrameAddr : PushBack(l, MaxVal, a) /\ Idle
    \/ \E l \in Lists : PopFront(l) /\ Idle
    \/ \E l \in Lists : PopBack(l) /\ Idle
    \/ \E l, o \in Lists : AppendLists(l, o) /\ Idle

SpecFrame == FrameInit /\ [][FrameNext]_vars

\* The nodes allocated before and after a step whose link word the step
\* changed, and those whose value it changed.
LinksChanged ==
    {a \in Allocated(heap) \cap Allocated(heap') :
        heap'[a].prev_x_next # heap[a].prev_x_next}
ValuesChanged ==
    {a \in Allocated(heap) \cap Allocated(heap') :
        heap'[a].element # heap[a].element}
OptSet(o) == IF o = None THEN {} ELSE {o[1]}

\* C17: each mutator changes link words at the affected end only:
\* push_front at most the old head's, pop_front at most the new head's,
\* push_back at most the old tail's, pop_back at most the new tail's; an
\* append of two non-empty lists exactly the receiver's former tail's and
\* the donor's former head's; an append of an empty donor changes neither
\* the receiver's head, tail and len nor any link word.  No mutator changes
\* the value of a node.
C17_EndLinksOnly ==
    [][lastOp'.op \in Pushes \cup Pops \cup {"append"} =>
          LET c == lastOp'
              l == c.list
              o == c.other
          IN  /\ ValuesChanged = {}
              /\ c.op = "push_front" => LinksChanged \subseteq OptSet(lists[l].head)
              /\ c.op = "pop_front" => LinksChanged \subseteq OptSet(lists'[l].head)
              /\ c.op = "push_back" => LinksChanged \subseteq OptSet(lists[l].tail)
              /\ c.op = "pop_back" => LinksChanged \subseteq OptSet(lists'[l].tail)
              /\ c.op \in Pushes \cup Pops =>
                     /\ Cardinality(LinksChanged) <= 1
                     /\ lists'[OtherList(l)] = lists[OtherList(l)]
              /\ (c.op = "append" /\ lists[l].len > 0 /\ lists[o].len > 0) =>
                     /\ LinksChanged =
                            OptSet(lists[l].tail) \cup OptSet(lists[o].head)
                     /\ Cardinality(LinksChanged) = 2
              /\ (c.op = "append" /\ lists[o].len = 0) =>
                     /\ lists'[l] = lists[l]
                     /\ LinksChanged = {}
                     /\ heap' = heap]_vars

\* An append of a list of two nodes onto a list of two nodes: the receiver
\* then holds two interior nodes.
C17_Witness ==
    /\ lastOp.op = "append"
    /\ lastOp.pre = 2
    /\ Len(NodesOf(lastOp.list)) = 4

-----------------------------------------------------------------------------
(* SpecRefine: the five mutating operations on the two lists, beside an
   abstract double-ended sequence per list that the same calls update *)

\* The abstract operations on sequences.
AbsPushFront(q, elem) == <<elem>> \o q
AbsPushBack(q, elem) == Append(q, elem)
AbsPopFront(q) ==
    IF q = <<>> THEN [seq |-> q, ret |-> None]
    ELSE [seq |-> Tail(q), ret |-> Some(Head(q))]
AbsPopBack(q) ==
    IF q = <<>> THEN [seq |-> q, ret |-> None]
    ELSE [seq |-> SubSeq(q, 1, Len(q) - 1), ret |-> Some(q[Len(q)])]

RefineFrame == UNCHANGED <<scriptVars, countVars, iterVars, teardown, threads>>

RefinePushFront(l, elem, a) ==
    /\ PushFront(l, elem, a)
    /\ abs' = [abs EXCEPT ![l] = AbsPushFront(@, elem)]
    /\ RefineFrame

RefinePushBack(l, elem, a) ==
    /\ PushBack(l, elem, a)
    /\ abs' = [abs EXCEPT ![l] = AbsPushBack(@, elem)]
    /\ RefineFrame

RefinePopFront(l) ==
    /\ PopFront(l)
    /\ abs' = [abs EXCEPT ![l] = AbsPopFront(@).seq]
    /\ RefineFrame

RefinePopBack(l) ==
    /\ PopBack(l)
    /\ abs' = [abs EXCEPT ![l] = AbsPopBack(@).seq]
    /\ RefineFrame

RefineAppend(l, o) ==
    /\ AppendLists(l, o)
    /\ abs' = [abs EXCEPT ![l] = abs[l] \o abs[o], ![o] = <<>>]
    /\ RefineFrame

RefineNext ==
    \/ \E l \in Lists, elem \in Val, a \in Addr : RefinePushFront(l, elem, a)
    \/ \E l \in Lists, elem \in Val, a \in Addr : RefinePushBack(l, elem, a)
    \/ \E l \in Lists : RefinePopFront(l)
    \/ \E l \in Lists : RefinePopBack(l)
    \/ \E l, o \in Lists : RefineAppend(l, o)

SpecRefine == Init /\ [][RefineNext]_vars

\* The forward xor walk of each list decodes its abstract sequence.
C18_Decodes ==
    \A l \in Lists :
        /\ ForwardWalk(heap, lists[l]).ok
        /\ Elements(heap, lists[l]) = abs[l]
        /\ len(lists[l]) = Len(abs[l])

\* A pop returns what the abstract pop returns.
C18_PopReturns ==
    /\ lastOp'.op = "pop_front" =>
           lastOp'.ret = AbsPopFront(abs[lastOp'.list]).ret
    /\ lastOp'.op = "pop_back" =>
           lastOp'.ret = AbsPopBack(abs[lastOp'.list]).ret

\* C18: for every sequence of push_front, push_back, pop_front, pop_back and
\* append on lists that start empty, the values the forward xor walk decodes
\* are the abstract sequence after each step, and every pop returns the
\* first (pop_front) or last (pop_back) element of the abstract sequence, or
\* no value when it is empty.
C18_RefinesDeque == [](C18_Decodes) /\ [][C18_PopReturns]_vars

\* A pop_back returned the last of three values that were pushed at both
\* ends and appended.
C18_Witness ==
    /\ lastOp.op = "pop_back"
    /\ lastOp.pre = 3
    /\ lastOp.ret # None
    /\ donor = OtherList(lastOp.list)
    /\ Len(abs[lastOp.list]) = 2
    /\ abs[lastOp.list][1] # abs[lastOp.list][2]

-----------------------------------------------------------------------------
\* What exhausting an iterator with forward reads yields last.
ForwardLast(it, h) ==
    LET e == Entries(it, h)
    IN  IF e.vals = <<>> THEN None ELSE Some(e.vals[Len(e.vals)])

\* In the state of each live iterator, last would return what the forward
\* reads yield last, reading nodes of the list only, and no value exactly
\* at remaining = 0.
C19_LastState ==
    \A i \in DOMAIN iters :
        LET r == Iter_last(iters[i], heap)
        IN  /\ Entries(iters[i], heap).ok
            /\ ReadsNode(r)
            /\ r.ret = ForwardLast(iters[i], heap)
            /\ (r.ret = None) <=> (iters[i].len = 0)

\* A call of last returns what the forward reads of the iterator it
\* consumes would have yielded last.
C19_LastStep ==
    lastOp'.op = "last" =>
        /\ lastOp'.ret = ForwardLast(iters[lastOp'.iter], heap)
        /\ (lastOp'.ret = None) <=> (lastOp'.pre = 0)

\* C19: in every iterator state, also after interleaved forward and
\* backward reads, Iter::last (one backward read) returns the element that
\* exhausting the iterator with forward reads would yield last, and no value
\* exactly when remaining is 0.
C19_LastIsForwardLast == [](C19_LastState) /\ [][C19_LastStep]_vars

=============================================================================
